---- MODULE Spec2Model ----
(***************************************************************************)
(* Frustum bucket drainage simulator (frustum_simulator/main.py).          *)
(*                                                                         *)
(* The program computes with binary64 floating point.  The model computes  *)
(* with scaled integers; every quantity has a fixed unit:                  *)
(*   radii, outlet diameter        1e-4 m                                  *)
(*   water height                  1e-6 m                                  *)
(*   radius at a height            1e-6 m                                  *)
(*   time, time step               1e-2 s                                  *)
(*   volume in litres              1e-5 L     volume in m^3   1e-9 m^3     *)
(*   outlet area                   1e-10 m^2  cross section   1e-8 m^2     *)
(*   ideal velocity                1e-4 m/s   velocity        1e-6 m/s     *)
(*   flow rate                     1e-12 m^3/s                             *)
(*   rate of change of height      1e-9 m/s                                *)
(*   kinematic viscosity           1e-8 m^2/s dynamic viscosity 1e-4 Pa s  *)
(*   density                       1 kg/m^3                                *)
(*   discharge coefficient         1e-2       Reynolds number 1e-2         *)
(*   viscosity factor, h/H         1e-6                                    *)
(* Every product and quotient is rounded to the nearest multiple of the    *)
(* unit of its result, as each floating point operation rounds its own     *)
(* result to the nearest representable number.                             *)
(***************************************************************************)
EXTENDS Integers, Sequences, FiniteSets, TLC

\* ------------------------------------------------------------ arithmetic

Abs(x) == IF x < 0 THEN -x ELSE x

\* <<q, r>> with a * b = q * c + r and 0 <= r < c, for a, b >= 0 and c > 0,
\* computed without forming the product a * b (which exceeds the range of
\* TLC's 32-bit integers): from the pair p for b \div 16.
RECURSIVE MulDivQR(_, _, _)
MulDivQR(a, b, c) ==
    IF b = 0 THEN <<0, 0>>
    ELSE CHOOSE qr \in
             {LET t == 16 * p[2] + (b % 16) * (a % c)
              IN  <<16 * p[1] + (b % 16) * (a \div c) + t \div c, t % c>> :
                  p \in {MulDivQR(a, b \div 16, c)}} : TRUE

\* a * b / c for a, b >= 0 and c > 0, rounded to the nearest integer.
MulDivAbs(a, b, c) ==
    CHOOSE n \in
        {IF 2 * qr[2] >= c THEN qr[1] + 1 ELSE qr[1] :
             qr \in {MulDivQR(a, b, c)}} : TRUE

\* a * b / c, rounded to the nearest integer (halves away from zero).
MulDiv(a, b, c) ==
    CHOOSE q \in
        {(IF (x < 0) = ((y < 0) = (z < 0)) THEN -1 ELSE 1)
            * MulDivAbs(Abs(x), Abs(y), Abs(z)) :
              x \in {a}, y \in {b}, z \in {c}} : TRUE

\* Integer square root (np.sqrt, rounded down): the root of n \div 16 gives
\* all but the last two bits.
RECURSIVE Isqrt(_)
Isqrt(n) ==
    CHOOSE r \in (IF n < 16 THEN 0..3
                  ELSE {4 * s + i : s \in {Isqrt(n \div 16)}, i \in 0..3}) :
        r * r <= n /\ n < (r + 1) * (r + 1)

ONE == 1000000
PI == 3141593

\* The binary64 values that are not numbers of the scale: +inf, -inf and NaN.
POS_INF == 2000000000
NEG_INF == -2000000000
NAN == -2000000001

IsNaN(x) == x = NAN

IsInf(x) == x = POS_INF \/ x = NEG_INF

\* x < y and x > y of binary64: false when either side is NaN.
Less(x, y) == ~IsNaN(x) /\ ~IsNaN(y) /\ x < y

Greater(x, y) == Less(y, x)

\* numpy's x * scale / y for finite x: a zero divisor gives an infinity of
\* the sign of x, or NaN for 0 / 0 (a RuntimeWarning, no exception).
np_divide(x, scale, y) ==
    CHOOSE q \in
        {IF b # 0 THEN MulDiv(a, scale, b)
         ELSE IF a > 0 THEN POS_INF ELSE IF a < 0 THEN NEG_INF ELSE NAN :
             a \in {x}, b \in {y}} : TRUE

\* x * y / scale for finite y: inf * 0 is NaN.
np_multiply(x, y, scale) ==
    CHOOSE p \in
        {IF IsNaN(a) THEN NAN
         ELSE IF IsInf(a)
              THEN (IF y = 0 THEN NAN
                    ELSE IF (a = POS_INF) = (y > 0) THEN POS_INF ELSE NEG_INF)
              ELSE MulDiv(a, y, scale) :
             a \in {x}} : TRUE

\* x + y for finite x.
np_add(x, y) ==
    CHOOSE r \in {IF IsNaN(b) \/ IsInf(b) THEN b ELSE x + b : b \in {y}} : TRUE

\* ------------------------------------------------------- fluid catalog

FluidProperties(n, rho, mu, nu) ==
    [name |-> n, density |-> rho, dynamic_viscosity |-> mu,
     kinematic_viscosity |-> nu]

FluidKeys ==
    {"water", "petrol", "milk", "motor_oil", "olive_oil", "treacle", "honey"}

FLUIDS ==
    [key \in FluidKeys |->
        CASE key = "water"     -> FluidProperties("Water", 1000, 10, 100)
          [] key = "petrol"    -> FluidProperties("Petrol (Gasoline)", 750, 6, 80)
          [] key = "milk"      -> FluidProperties("Milk", 1030, 20, 194)
          [] key = "motor_oil" -> FluidProperties("Motor Oil (SAE 30)", 870, 2900, 33000)
          [] key = "olive_oil" -> FluidProperties("Olive Oil", 910, 810, 8900)
          [] key = "treacle"   -> FluidProperties("Treacle (Golden Syrup)", 1420, 50000, 350000)
          [] key = "honey"     -> FluidProperties("Honey", 1420, 100000, 700000)]

\* ------------------------------------------------------- FrustumBucket

\* 2 * GRAVITY = 19.62 m/s^2, in 1e-2 m/s^2.
GRAVITY2 == 1962

\* h = 3 V / (pi (r1^2 + r1 r2 + r2^2)), in 1e-6 m.
calculate_height(r1, r2, volume_m3) ==
    LET numerator == 3 * volume_m3
        denominator == MulDiv(r1 * r1 + r1 * r2 + r2 * r2, PI, ONE)
    IN  MulDiv(numerator, 100000, denominator)

\* FrustumBucket(r1, r2, volume, outlet_diameter, discharge_coeff, fluid):
\* every argument is stored as given.  volume / 1000.0 turns litres (1e-5 L)
\* into cubic metres (1e-9 m^3); (outlet_diameter / 2) ** 2 is d * d / 4, in
\* 1e-10 m^2.
FrustumBucket(r1, r2, volume, outlet_diameter, discharge_coeff, fluid) ==
    [r1 |-> r1,
     r2 |-> r2,
     volume_liters |-> volume,
     volume_m3 |-> volume * 10,
     outlet_diameter |-> outlet_diameter,
     outlet_area |-> MulDiv(outlet_diameter * outlet_diameter * 25, PI, ONE),
     discharge_coeff |-> discharge_coeff,
     fluid |-> fluid,
     height |-> calculate_height(r1, r2, volume * 10)]

\* r(h) = r2 + (r1 - r2) * (h / H), in 1e-6 m.
radius_at_height(self, h) ==
    self.r2 * 100 + MulDiv((self.r1 - self.r2) * 100, MulDiv(h, ONE, self.height), ONE)

\* pi * r(h)^2, in 1e-8 m^2.
cross_sectional_area(self, h) ==
    LET r == radius_at_height(self, h)
    IN  MulDiv(MulDiv(r, r, 10000), PI, ONE)

\* Re = v * D / nu, in 1e-2.
reynolds_number(self, velocity, diameter) ==
    MulDiv(velocity, diameter, self.fluid.kinematic_viscosity)

\* The correction factor with the turbulent term added instead of subtracted.
viscosity_factor_added(Re) ==
    IF Re < 230000 THEN 700000
    ELSE IF Re < 400000 THEN 850000
    ELSE IF Re > 100000 THEN ONE + MulDiv(100000, ONE, Re) ELSE 500000

\* The correction factor with the fallback taken up to Re = 10000.
viscosity_factor_fallback(Re) ==
    IF Re < 230000 THEN 700000
    ELSE IF Re < 400000 THEN 850000
    ELSE IF Re > 1000000 THEN ONE - MulDiv(100000, ONE, Re) ELSE 500000

\* The correction factor with the laminar and transitional values exchanged.
viscosity_factor_swapped(Re) ==
    IF Re < 230000 THEN 850000
    ELSE IF Re < 400000 THEN 700000
    ELSE IF Re > 100000 THEN ONE - MulDiv(100000, ONE, Re) ELSE 500000

\* The empirical correction factor of a Reynolds number, in 1e-6.
viscosity_factor(Re) ==
    IF Re < 230000 THEN 700000
    ELSE IF Re < 400000 THEN 850000
    ELSE IF Re > 100000 THEN ONE - MulDiv(100000, ONE, Re) ELSE 500000

\* The viscosity correction applied to the ideal coefficient as well.
non_ideal_inclusive(self) == self.discharge_coeff <= 100

\* Whether the viscosity correction applies.
non_ideal(self) == self.discharge_coeff < 100

\* Volumetric flow rate at water height h, in 1e-12 m^3/s.
flow_rate(self, h) ==
    IF h <= 0 THEN 0
    ELSE LET velocity_ideal == Isqrt(GRAVITY2 * h)
             velocity == self.discharge_coeff * velocity_ideal
             corrected ==
                 IF non_ideal(self)
                 THEN MulDiv(velocity,
                             viscosity_factor(
                                 reynolds_number(self, velocity, self.outlet_diameter)),
                             ONE)
                 ELSE velocity
         IN  MulDiv(self.outlet_area, corrected, 10000)

\* Height at or below which the bucket counts as empty: 1e-6 m.
EMPTY_HEIGHT == 1

\* Safety cap on the simulated time: 10,000 s.
MAX_TIME == 1000000

\* The loop condition entered at the threshold height as well.
not_empty_inclusive(current_height) ==
    ~IsNaN(current_height) /\ current_height >= EMPTY_HEIGHT

\* The loop condition of simulate.
not_empty(current_height) == Greater(current_height, EMPTY_HEIGHT)

\* The safety check leaving the loop as soon as the cap is reached.
safety_break_inclusive(current_time) == current_time >= MAX_TIME

\* The safety check with the cap at 20,000 s.
safety_break_late(current_time) == current_time > 2 * MAX_TIME

\* The safety check omitted.
safety_break_never(current_time) == FALSE

\* The safety check that leaves the loop.
safety_break(current_time) == current_time > MAX_TIME

\* The height left as the Euler step produced it.
clamp_height_missing(current_height) == current_height

\* "Ensure height doesn't go negative".
clamp_height(current_height) ==
    IF Less(current_height, 0) THEN 0 ELSE current_height

\* The loop body advancing the time twice in a pass.
euler_step_double_advance(self, time_step, current_time, current_height) ==
    LET Q == flow_rate(self, current_height)
        A == cross_sectional_area(self, current_height)
        dh_dt == np_divide(-Q, 100000, A)
    IN  [current_time |-> current_time + time_step + time_step,
         current_height |->
             clamp_height(np_add(current_height,
                                 np_multiply(dh_dt, time_step, 100000)))]

\* One pass through the body of simulate's loop from the cursor
\* (current_time, current_height): the new cursor.
euler_step(self, time_step, current_time, current_height) ==
    LET Q == flow_rate(self, current_height)
        A == cross_sectional_area(self, current_height)
        dh_dt == np_divide(-Q, 100000, A)
    IN  [current_time |-> current_time + time_step,
         current_height |->
             clamp_height(np_add(current_height,
                                 np_multiply(dh_dt, time_step, 100000)))]

\* (f1 - f0) / (x1 - x0), in 1e-9 m/s; NaN when a height is NaN.
difference_quotient(f1, f0, x1, x0) ==
    IF IsNaN(f1) \/ IsNaN(f0) THEN NAN
    ELSE np_divide(f1 - f0, 100000, x1 - x0)

\* np.gradient(height_points, time_points) on the evenly spaced samples of a
\* trace, in 1e-9 m/s: one-sided differences at the two ends, central
\* differences inside; fewer than two samples raise ValueError.
gradient(f, x) ==
    LET n == Len(f)
    IN  IF n < 2 THEN [raised |-> "ValueError", value |-> << >>]
        ELSE [raised |-> "none",
              value |->
                 [i \in 1..n |->
                     IF i = 1 THEN difference_quotient(f[2], f[1], x[2], x[1])
                     ELSE IF i = n
                          THEN difference_quotient(f[n], f[n - 1], x[n], x[n - 1])
                          ELSE difference_quotient(f[i + 1], f[i - 1],
                                                   x[i + 1], x[i - 1])]]

calculate_derivative(time_points, height_points) ==
    gradient(height_points, time_points)

\* ------------------------------------------------------------- inputs

\* Longest trace the model follows.
MaxSamples == 26

Tasks == {"ideal", "real"}

\* Arguments a caller passes: geometry, fluid, discharge coefficient and
\* time step.  The constructor and simulate accept whatever they are given.
Inputs ==
    \* full-size and small bucket, every fluid
    [r1 : {1500}, r2 : {1000}, volume : {50000, 1000000}, d : {100},
     cd : {100, 99, 65}, fluid : FluidKeys, dt : {1000, 2000, 250000}]
    \cup
    \* a film of liquid no deeper than 1e-6 m
    [r1 : {1500}, r2 : {1000}, volume : {4}, d : {100},
     cd : {100, 65}, fluid : {"water", "honey"}, dt : {1000, 2000}]
    \cup
    \* a pinhole outlet
    [r1 : {1500}, r2 : {1000}, volume : {1000000}, d : {1},
     cd : {100, 65}, fluid : {"water", "honey"}, dt : {250000, 400000}]
    \cup
    \* arguments outside the documented ranges
    [r1 : {1500}, r2 : {1000}, volume : {50000}, d : {100},
     cd : {120}, fluid : {"water", "honey"}, dt : {1000, 2000}]
    \cup
    \* a top radius of 0: the radius at the full height is 0
    [r1 : {0}, r2 : {1000}, volume : {1000000}, d : {100, 0},
     cd : {65}, fluid : {"water"}, dt : {2000}]
    \cup
    [r1 : {1000}, r2 : {1000, 1500}, volume : {1000000}, d : {100},
     cd : {100}, fluid : {"water"}, dt : {2000}]
    \cup
    [r1 : {1500}, r2 : {1000}, volume : {0, -1000000}, d : {100},
     cd : {100}, fluid : {"water"}, dt : {2000}]
    \cup
    [r1 : {1500}, r2 : {1000}, volume : {1000000}, d : {0},
     cd : {65}, fluid : {"water"}, dt : {400000}]
    \cup
    [r1 : {1500}, r2 : {1000}, volume : {1000000}, d : {100},
     cd : {65}, fluid : {"water"}, dt : {0, -1000}]

\* --------------------------------------------------------------- state

VARIABLES
    main_pc,          \* position of the caller (main)
    args,             \* the arguments the caller chose
    comparison_mode,  \* main: side-by-side comparison or realistic only
    bucket,           \* the FrustumBucket objects: bucket_ideal, bucket_real
    pc,               \* position of each simulate call
    time_points,      \* simulate's local lists and cursor, per call
    height_points,
    current_time,
    current_height,
    result,           \* what each simulate call returned
    output,           \* what main printed
    dhdt,             \* the rate series of the plots
    exception         \* the exception that ended main, if any

vars == <<main_pc, args, comparison_mode, bucket, pc, time_points, height_points,
          current_time, current_height, result, output, dhdt, exception>>

sim_vars == <<pc, time_points, height_points, current_time, current_height, result>>

Init ==
    /\ main_pc = "start"
    /\ args = << >>
    /\ comparison_mode = FALSE
    /\ bucket = << >>
    /\ pc = [k \in Tasks |-> "idle"]
    /\ time_points = [k \in Tasks |-> << >>]
    /\ height_points = [k \in Tasks |-> << >>]
    /\ current_time = [k \in Tasks |-> 0]
    /\ current_height = [k \in Tasks |-> 0]
    /\ result = << >>
    /\ output = << >>
    /\ dhdt = << >>
    /\ exception = "none"

\* main: bucket_real = FrustumBucket(r1, r2, volume, d, cd, fluid), with the
\* mode and the time step chosen.
Construct ==
    /\ main_pc = "start"
    /\ \E a \in Inputs, mode \in BOOLEAN :
          /\ args' = a
          /\ comparison_mode' = mode
          /\ bucket' = ("real" :> FrustumBucket(a.r1, a.r2, a.volume, a.d, a.cd,
                                                FLUIDS[a.fluid]))
    /\ main_pc' = "constructed"
    /\ UNCHANGED <<sim_vars, output, dhdt, exception>>

\* main, comparison mode: build the ideal bucket and submit both simulate
\* calls to the executor.
SubmitBoth ==
    /\ main_pc = "constructed"
    /\ comparison_mode
    /\ bucket' = bucket @@
          ("ideal" :> FrustumBucket(args.r1, args.r2, args.volume, args.d, 100,
                                    FLUIDS["water"]))
    /\ pc' = [k \in Tasks |-> "submitted"]
    /\ main_pc' = "waiting"
    /\ UNCHANGED <<args, comparison_mode, time_points, height_points, current_time,
                   current_height, result, output, dhdt, exception>>

\* main, realistic only: call bucket_real.simulate(t).
CallSingle ==
    /\ main_pc = "constructed"
    /\ ~comparison_mode
    /\ pc' = [pc EXCEPT !["real"] = "submitted"]
    /\ main_pc' = "waiting"
    /\ UNCHANGED <<args, comparison_mode, bucket, time_points, height_points,
                   current_time, current_height, result, output, dhdt, exception>>

\* simulate: the lists and the cursor before the loop.
SimulateBegin(k) ==
    /\ pc[k] = "submitted"
    /\ time_points' = [time_points EXCEPT ![k] = <<0>>]
    /\ height_points' = [height_points EXCEPT ![k] = <<bucket[k].height>>]
    /\ current_time' = [current_time EXCEPT ![k] = 0]
    /\ current_height' = [current_height EXCEPT ![k] = bucket[k].height]
    /\ pc' = [pc EXCEPT ![k] = "loop"]
    /\ UNCHANGED <<main_pc, args, comparison_mode, bucket, result, output, dhdt,
                   exception>>

\* The loop body storing the current height in the bucket (self.height).
Step_drains_bucket(k) ==
    /\ pc[k] = "loop"
    /\ not_empty(current_height[k])
    /\ Len(time_points[k]) < MaxSamples
    /\ \E next \in {euler_step(bucket[k], args.dt, current_time[k],
                                  current_height[k])} :
           /\ current_time' = [current_time EXCEPT ![k] = next.current_time]
           /\ current_height' = [current_height EXCEPT ![k] = next.current_height]
           /\ time_points' =
                 [time_points EXCEPT ![k] = Append(@, next.current_time)]
           /\ height_points' =
                 [height_points EXCEPT ![k] = Append(@, next.current_height)]
           /\ bucket' = [bucket EXCEPT ![k].height = next.current_height]
           /\ pc' = [pc EXCEPT ![k] =
                        IF safety_break(next.current_time) THEN "break" ELSE "loop"]
    /\ UNCHANGED <<main_pc, args, comparison_mode, result, output, dhdt,
                   exception>>

\* The loop body with the height cursor kept in one place for all calls.
Step_shared(k) ==
    /\ pc[k] = "loop"
    /\ not_empty(current_height[k])
    /\ Len(time_points[k]) < MaxSamples
    /\ \E next \in {euler_step(bucket[k], args.dt, current_time[k],
                                  current_height[k])} :
           /\ current_time' = [current_time EXCEPT ![k] = next.current_time]
           /\ current_height' = [j \in Tasks |-> next.current_height]
           /\ time_points' =
                 [time_points EXCEPT ![k] = Append(@, next.current_time)]
           /\ height_points' =
                 [height_points EXCEPT ![k] = Append(@, next.current_height)]
           /\ pc' = [pc EXCEPT ![k] =
                        IF safety_break(next.current_time) THEN "break" ELSE "loop"]
    /\ UNCHANGED <<main_pc, args, comparison_mode, bucket, result, output, dhdt,
                   exception>>

\* simulate: one pass through the loop body.
Step(k) ==
    /\ pc[k] = "loop"
    /\ not_empty(current_height[k])
    /\ Len(time_points[k]) < MaxSamples
    /\ \E next \in {euler_step(bucket[k], args.dt, current_time[k],
                                  current_height[k])} :
           /\ current_time' = [current_time EXCEPT ![k] = next.current_time]
           /\ current_height' = [current_height EXCEPT ![k] = next.current_height]
           /\ time_points' =
                 [time_points EXCEPT ![k] = Append(@, next.current_time)]
           /\ height_points' =
                 [height_points EXCEPT ![k] = Append(@, next.current_height)]
           /\ pc' = [pc EXCEPT ![k] =
                        IF safety_break(next.current_time) THEN "break" ELSE "loop"]
    /\ UNCHANGED <<main_pc, args, comparison_mode, bucket, result, output, dhdt,
                   exception>>

\* simulate: return time_points, height_points.
Return(k) ==
    /\ \/ pc[k] = "break"
       \/ pc[k] = "loop" /\ ~not_empty(current_height[k])
    /\ result' = result @@ (k :> <<time_points[k], height_points[k]>>)
    /\ pc' = [pc EXCEPT ![k] = "returned"]
    /\ UNCHANGED <<main_pc, args, comparison_mode, bucket, time_points,
                   height_points, current_time, current_height, output, dhdt,
                   exception>>

Last(seq) == seq[Len(seq)]

\* main joining only the ideal call and reading the realistic call's list as
\* it stands.
ReportComparison_unjoined ==
    /\ main_pc = "waiting"
    /\ comparison_mode
    /\ pc["ideal"] = "returned" /\ pc["real"] \in {"loop", "break", "returned"}
    /\ LET ideal_time == Last(result["ideal"][1])
           real_time == Last(time_points["real"])
       IN  IF ideal_time = 0
           THEN /\ output' = [ideal_drainage_time |-> ideal_time,
                              realistic_drainage_time |-> real_time]
                /\ exception' = "ZeroDivisionError"
                /\ main_pc' = "crashed"
           ELSE /\ output' = [ideal_drainage_time |-> ideal_time,
                              realistic_drainage_time |-> real_time,
                              time_increase |->
                                  MulDiv(real_time, 1000, ideal_time) - 1000]
                /\ exception' = exception
                /\ main_pc' = "reported"
    /\ UNCHANGED <<args, comparison_mode, bucket, sim_vars, dhdt>>

\* main, comparison mode: both futures have their result; print the two
\* drainage times and the increase (in 1e-3, i.e. tenths of a percent).
ReportComparison ==
    /\ main_pc = "waiting"
    /\ comparison_mode
    /\ \A k \in Tasks : pc[k] = "returned"
    /\ LET ideal_time == Last(result["ideal"][1])
           real_time == Last(result["real"][1])
       IN  IF ideal_time = 0
           THEN /\ output' = [ideal_drainage_time |-> ideal_time,
                              realistic_drainage_time |-> real_time]
                /\ exception' = "ZeroDivisionError"
                /\ main_pc' = "crashed"
           ELSE /\ output' = [ideal_drainage_time |-> ideal_time,
                              realistic_drainage_time |-> real_time,
                              time_increase |->
                                  MulDiv(real_time, 1000, ideal_time) - 1000]
                /\ exception' = exception
                /\ main_pc' = "reported"
    /\ UNCHANGED <<args, comparison_mode, bucket, sim_vars, dhdt>>

\* main, realistic only: print the time the bucket takes to drain.
ReportSingle ==
    /\ main_pc = "waiting"
    /\ ~comparison_mode
    /\ pc["real"] = "returned"
    /\ output' = [drainage_time |-> Last(result["real"][1])]
    /\ main_pc' = "reported"
    /\ UNCHANGED <<args, comparison_mode, bucket, sim_vars, dhdt, exception>>

\* plot_simulation / plot_comparison without the rate subplot.
PlotPlain ==
    /\ main_pc = "reported"
    /\ main_pc' = "plotted"
    /\ UNCHANGED <<args, comparison_mode, bucket, sim_vars, output, dhdt, exception>>

\* plot_simulation / plot_comparison with show_derivative: the rate series of
\* every trace.
PlotDerivative ==
    /\ main_pc = "reported"
    /\ LET rates == [k \in DOMAIN result |->
                        calculate_derivative(result[k][1], result[k][2])]
       IN  IF \E k \in DOMAIN result : rates[k].raised # "none"
           THEN /\ exception' = "ValueError"
                /\ main_pc' = "crashed"
                /\ dhdt' = dhdt
           ELSE /\ dhdt' = [k \in DOMAIN result |-> rates[k].value]
                /\ main_pc' = "plotted_derivative"
                /\ exception' = exception
    /\ UNCHANGED <<args, comparison_mode, bucket, sim_vars, output>>

Next ==
    \/ Construct
    \/ SubmitBoth
    \/ CallSingle
    \/ \E k \in Tasks : SimulateBegin(k)
    \/ \E k \in Tasks : Step(k)
    \/ \E k \in Tasks : Return(k)
    \/ ReportComparison
    \/ ReportSingle
    \/ PlotPlain
    \/ PlotDerivative

Spec == Init /\ [][Next]_vars

\* Both simulate calls run on their own worker thread of the executor (or on
\* the caller's thread), so a call that can take a step eventually takes it;
\* main's thread resumes once both futures have their result.
FairSpec ==
    /\ Spec
    /\ \A k \in Tasks : WF_vars(SimulateBegin(k) \/ Step(k) \/ Return(k))
    /\ WF_vars(ReportComparison)

\* ------------------------------------------------------------- claims

\* The documented ranges of the arguments.
ValidGeometry(a) == a.r1 > a.r2 /\ a.r2 > 0 /\ a.volume > 0 /\ a.d > 0

ValidRun == main_pc # "start" /\ ValidGeometry(args) /\ args.dt > 0

Min(a, b) == IF a < b THEN a ELSE b

Drained(k) == ~Greater(Last(result[k][2]), EMPTY_HEIGHT) /\ ~IsNaN(Last(result[k][2]))

TimedOut(k) == Last(result[k][1]) > MAX_TIME

\* C1: for valid inputs the returned trace starts with the sample
\* (0, height of the full bucket) and its last sample has height <= 1e-6 or
\* time > 10000 s.
C1_TraceEnds ==
    ValidRun =>
        \A k \in DOMAIN result :
            /\ result[k][1][1] = 0
            /\ result[k][2][1] = bucket[k].height
            /\ (Drained(k) \/ TimedOut(k))

C1_Witness ==
    /\ ValidRun
    /\ \E k \in DOMAIN result :
          Len(result[k][1]) >= 3 /\ Drained(k) /\ ~TimedOut(k)

C3_FailsFast ==
    (main_pc # "start" /\ args.dt <= 0) =>
        \A k \in Tasks : Len(time_points[k]) <= 1 /\ pc[k] # "returned"

\* C4: no bucket object exists with r1 <= r2, volume <= 0 or outlet
\* diameter <= 0, so no simulate call starts on one.
C4_EagerValidation ==
    \A k \in DOMAIN bucket :
        /\ bucket[k].r1 > bucket[k].r2
        /\ bucket[k].volume_liters > 0
        /\ bucket[k].outlet_diameter > 0

\* C5: every completed simulate call carries its termination reason, and the
\* final time of a timed-out run is never printed as a drainage time.
C5_ReasonAttached ==
    /\ \A k \in DOMAIN result :
          /\ Len(result[k]) >= 3
          /\ result[k][3] = (IF Drained(k) THEN "Drained" ELSE "TimedOut")
    /\ main_pc = "reported" =>
          \A k \in DOMAIN result : Drained(k)

\* C6: with valid geometry and a time step > 0 the height of a trace never
\* increases from one sample to the next and is never negative.
C6_HeightMonotone ==
    ValidRun =>
        \A k \in Tasks :
            \A i \in 1..Len(height_points[k]) :
                /\ height_points[k][i] >= 0
                /\ i > 1 => height_points[k][i] <= height_points[k][i - 1]

C6_Witness ==
    /\ ValidRun
    /\ \E k \in Tasks :
          LET n == Len(height_points[k])
          IN  n >= 3 /\ height_points[k][n] = 0 /\ height_points[k][n - 1] > 0

\* C7: for the same geometry, outlet and time step, the run with Cd < 1.0
\* (any fluid) is never below the run with Cd = 1.0 and water at a common
\* step index, and its final time is not smaller.
C7_RealNotFaster ==
    (ValidRun /\ comparison_mode /\ args.cd < 100) =>
        /\ \A i \in 1..Min(Len(height_points["ideal"]), Len(height_points["real"])) :
              height_points["real"][i] >= height_points["ideal"][i]
        /\ (pc["ideal"] = "returned" /\ pc["real"] = "returned") =>
              Last(result["real"][1]) >= Last(result["ideal"][1])

C7_Witness ==
    /\ ValidRun /\ comparison_mode /\ args.cd < 100
    /\ pc["ideal"] = "returned" /\ pc["real"] = "returned"
    /\ Len(result["ideal"][1]) >= 3
    /\ Last(result["real"][1]) > Last(result["ideal"][1])

\* Heights at which the flow model is probed besides the heights a run visits.
ProbeHeights == {1, 2, 50, 1000, 6400, 6500, 19000, 19500, 100000, 200000}

\* The heights the flow model of a bucket is evaluated at in a state: the
\* probes when its run is submitted, then each height the run visits.
FlowHeights(k) ==
    IF pc[k] = "submitted" THEN ProbeHeights ELSE {current_height[k]} \ {NAN}

\* C8: with Cd = 1.0 the flow rate at every height > 0 is
\* outlet area * sqrt(2 g h) whatever the fluid, and two buckets that differ
\* only in their fluid produce the same trace.
C8_IdealIgnoresFluid ==
    /\ \A k \in DOMAIN bucket :
          bucket[k].discharge_coeff = 100 =>
              \A h \in FlowHeights(k) :
                  h > 0 =>
                      /\ flow_rate(bucket[k], h) =
                            MulDiv(bucket[k].outlet_area,
                                   100 * Isqrt(GRAVITY2 * h), 10000)
                      /\ \A f \in FluidKeys :
                            flow_rate([bucket[k] EXCEPT !.fluid = FLUIDS[f]], h) =
                                flow_rate(bucket[k], h)
    /\ (main_pc # "start" /\ comparison_mode /\ args.cd = 100) =>
          /\ \A i \in 1..Min(Len(height_points["ideal"]), Len(height_points["real"])) :
                /\ height_points["real"][i] = height_points["ideal"][i]
                /\ time_points["real"][i] = time_points["ideal"][i]
          /\ (pc["ideal"] = "returned" /\ pc["real"] = "returned") =>
                result["real"] = result["ideal"]

C8_Witness ==
    /\ main_pc # "start" /\ comparison_mode /\ args.cd = 100
    /\ args.fluid = "honey"
    /\ pc["ideal"] = "returned" /\ pc["real"] = "returned"
    /\ Len(result["real"][1]) >= 3

\* Reynolds number of the outlet flow at height h, as flow_rate computes it.
ReynoldsAt(self, h) ==
    reynolds_number(self, self.discharge_coeff * Isqrt(GRAVITY2 * h),
                    self.outlet_diameter)

\* The heights of a bucket the flow model is compared at: the probes and every
\* height of its trace.
HeightsOf(k) ==
    {h \in ProbeHeights \cup {height_points[k][i] : i \in 1..Len(height_points[k])} :
        h > 0}

\* The states the comparison is made in: a bucket was just constructed, or
\* the runs are complete.
Compared == main_pc \in {"constructed", "reported"}

\* C9 as stated: the flow rate never decreases when the height grows, also
\* across the regime boundaries Re = 2300 and Re = 4000.
C9_FlowMonotone ==
    Compared => \A k \in DOMAIN bucket :
        LET Q == [h \in HeightsOf(k) |-> flow_rate(bucket[k], h)]
        IN  \A h1, h2 \in HeightsOf(k) : h1 <= h2 => Q[h1] <= Q[h2]

\* C9 amended: the flow rate never decreases when the height grows, except
\* between a height below the turbulent boundary (Re < 4000) and a height at
\* or above it (Re >= 4000) of a bucket with Cd < 1.0.
C9_FlowMonotoneOffBoundary ==
    Compared => \A k \in DOMAIN bucket :
        LET Q == [h \in HeightsOf(k) |-> flow_rate(bucket[k], h)]
            Re == [h \in HeightsOf(k) |-> ReynoldsAt(bucket[k], h)]
        IN  \A h1, h2 \in HeightsOf(k) :
                (/\ h1 <= h2
                 /\ ~(/\ bucket[k].discharge_coeff < 100
                      /\ Re[h1] < 400000
                      /\ Re[h2] >= 400000))
                => Q[h1] <= Q[h2]

C9_Witness ==
    Compared /\ \E k \in DOMAIN bucket :
        /\ bucket[k].discharge_coeff < 100
        /\ Len(height_points[k]) >= 3
        /\ \E i, j \in 1..Len(height_points[k]) :
              /\ height_points[k][i] > 0
              /\ ReynoldsAt(bucket[k], height_points[k][i]) < 230000
              /\ ReynoldsAt(bucket[k], height_points[k][j]) >= 230000
              /\ ReynoldsAt(bucket[k], height_points[k][j]) < 400000
              /\ flow_rate(bucket[k], height_points[k][i])
                    < flow_rate(bucket[k], height_points[k][j])

\* C10: the rate series of every trace simulate returns has as many values
\* as the trace has samples, the single-sample trace included.
C10_RatesSameLength ==
    (main_pc \in {"plotted_derivative", "crashed"}
        /\ exception \in {"none", "ValueError"}) =>
        \A k \in DOMAIN result :
            /\ k \in DOMAIN dhdt
            /\ Len(dhdt[k]) = Len(result[k][1])

\* The trace simulate(time_step) builds on the bucket self when it is the only
\* call running, continued from the samples tp, hp.
RECURSIVE simulate_alone(_, _, _, _)
simulate_alone(self, time_step, tp, hp) ==
    IF \/ ~not_empty(Last(hp))
       \/ Len(tp) > 1 /\ safety_break(Last(tp))
       \/ Len(tp) >= MaxSamples
    THEN <<tp, hp>>
    ELSE CHOOSE r \in
             {simulate_alone(self, time_step, Append(tp, next.current_time),
                             Append(hp, next.current_height)) :
                  next \in {euler_step(self, time_step, Last(tp), Last(hp))}} :
             TRUE

\* Both simulate calls of the comparison have returned and main has not yet
\* used their results.
AtBarrier ==
    main_pc = "waiting" /\ comparison_mode /\ \A k \in Tasks : pc[k] = "returned"

\* The variables local to the simulate call k.
Locals(k) == <<time_points[k], height_points[k], current_time[k], current_height[k]>>

\* C11: whatever the interleaving of the two concurrent simulate calls, each
\* returns the trace the same call builds when it runs alone, and no
\* transition changes the lists or the cursor of more than one call.
C11_Isolated ==
    /\ [](AtBarrier =>
             \A k \in Tasks :
                 result[k] = simulate_alone(bucket[k], args.dt, <<0>>,
                                            <<bucket[k].height>>))
    /\ [][\A j, k \in Tasks :
             j # k => (Locals(j)' = Locals(j) \/ Locals(k)' = Locals(k))]_vars

C11_Witness ==
    /\ AtBarrier /\ ValidRun
    /\ Len(result["ideal"][1]) >= 3
    /\ Len(result["real"][1]) > Len(result["ideal"][1])
    /\ result["real"][2][2] # result["ideal"][2][2]

\* main has gone past the two result() calls of the comparison.
PastBarrier ==
    comparison_mode
        /\ main_pc \in {"reported", "crashed", "plotted", "plotted_derivative"}

C13_InitialSample ==
    /\ \A k \in DOMAIN result :
          /\ Len(result[k][1]) >= 1 /\ Len(result[k][2]) >= 1
          /\ result[k][1][1] = 0
          /\ result[k][2][1] = bucket[k].height
    /\ \A k \in Tasks :
          (pc[k] \in {"loop", "break", "returned"}
              /\ bucket[k].height <= EMPTY_HEIGHT) =>
              /\ pc[k] # "break"
              /\ time_points[k] = <<0>>
              /\ height_points[k] = <<bucket[k].height>>
              /\ k \in DOMAIN result =>
                    result[k] = <<(<<0>>), (<<bucket[k].height>>)>>

C13_Witness ==
    \E k \in DOMAIN result :
        /\ bucket[k].height > 0 /\ bucket[k].height <= EMPTY_HEIGHT
        /\ args.dt > 0
        /\ result[k] = <<(<<0>>), (<<bucket[k].height>>)>>

\* The correction factor as the reference states it: 1 for Cd >= 1.0,
\* otherwise by the regime of Re = Cd * sqrt(2 g h) * D / nu.
ReferenceFactor(self, h) ==
    IF self.discharge_coeff >= 100 THEN ONE
    ELSE LET Re == MulDiv(self.discharge_coeff * Isqrt(GRAVITY2 * h),
                          self.outlet_diameter, self.fluid.kinematic_viscosity)
         IN  IF Re < 230000 THEN 700000
             ELSE IF Re >= 230000 /\ Re < 400000 THEN 850000
             ELSE ONE - MulDiv(100000, ONE, Re)

\* The reference flow rate: 0 for h <= 0, otherwise
\* outlet area * Cd * sqrt(2 g h) * factor.
ReferenceFlow(self, h) ==
    IF h <= 0 THEN 0
    ELSE MulDiv(self.outlet_area,
                MulDiv(self.discharge_coeff * Isqrt(GRAVITY2 * h),
                       ReferenceFactor(self, h), ONE),
                10000)

C15_ZeroAreaHandled ==
    \A k \in Tasks :
        /\ (pc[k] = "loop" /\ not_empty(current_height[k])) =>
              cross_sectional_area(bucket[k], current_height[k]) # 0
        /\ \A i \in 1..Len(height_points[k]) :
              ~IsNaN(height_points[k][i]) /\ ~IsInf(height_points[k][i])

\* The bucket object of the call k as main constructed it.
AsConstructed(k) ==
    IF k = "real"
    THEN FrustumBucket(args.r1, args.r2, args.volume, args.d, args.cd,
                       FLUIDS[args.fluid])
    ELSE FrustumBucket(args.r1, args.r2, args.volume, args.d, 100, FLUIDS["water"])

\* C16: every bucket keeps the fields it was constructed with, its fluid
\* being the catalog entry, through every step of simulate; computing the
\* rates leaves the returned traces as they were, and computing them again
\* from the same trace gives the same series.
C16_Frame ==
    /\ [](\A k \in DOMAIN bucket : bucket[k] = AsConstructed(k))
    /\ [](main_pc = "plotted_derivative" =>
             \A k \in DOMAIN result :
                 dhdt[k] = calculate_derivative(result[k][1], result[k][2]).value)
    /\ [][(\E k \in Tasks : Locals(k)' # Locals(k)) => bucket' = bucket]_vars
    /\ [][main_pc = "reported" =>
             /\ result' = result
             /\ \A k \in Tasks : Locals(k)' = Locals(k)]_vars

C16_Witness ==
    /\ main_pc = "plotted_derivative" /\ comparison_mode /\ ValidRun
    /\ args.fluid = "honey" /\ args.cd < 100
    /\ Len(result["real"][1]) >= 3
    /\ \E i \in 1..Len(dhdt["real"]) : dhdt["real"][i] < 0
    /\ bucket["real"].height > Last(height_points["real"])

\* C17: with a time step > 0, in every trace (being built or returned) every
\* sample before the last has height > 1e-6 m and time <= 10000 s, and the
\* final time of a returned trace that exceeds 10000 s is at most
\* 10000 s + dt.
C17_StopsAtFirstTerminal ==
    (main_pc # "start" /\ args.dt > 0) =>
        \A k \in Tasks :
            /\ \A i \in 1..(Len(time_points[k]) - 1) :
                  /\ Greater(height_points[k][i], EMPTY_HEIGHT)
                  /\ time_points[k][i] <= MAX_TIME
            /\ (k \in DOMAIN result /\ TimedOut(k)) =>
                  /\ Last(result[k][1]) > MAX_TIME
                  /\ Last(result[k][1]) <= MAX_TIME + args.dt

C17_Witness ==
    /\ main_pc # "start" /\ args.dt > 0
    /\ \E k \in DOMAIN result :
          LET n == Len(result[k][1])
          IN  /\ n >= 4
              /\ result[k][1][n] > MAX_TIME
              /\ result[k][1][n - 1] = MAX_TIME
              /\ Greater(result[k][2][n], EMPTY_HEIGHT)

\* seq is an initial part of seq2.
IsPrefix(seq, seq2) ==
    Len(seq) <= Len(seq2) /\ SubSeq(seq2, 1, Len(seq)) = seq

====
